---------------------------- MODULE Spec2Model ----------------------------
(***************************************************************************)
(* Model of the two RFID sketches of the parking management system:        *)
(*   hardware/payment/process_payment.ino   (Payment Handshake Controller) *)
(*   hardware/writing_on_rfid/top_up.ino    (Provisioning Controller)      *)
(*                                                                         *)
(* A character is a one-character string; an Arduino String and a byte     *)
(* buffer are sequences of characters.  NUL stands for the byte 0x00.      *)
(* `long` is 32 bits wide (two's complement); the decimal parse keeps that *)
(* width by computing on two 16-bit halves.                                *)
(***************************************************************************)
EXTENDS Integers, Sequences, FiniteSets, TLC

\* ------------------------------------------------------------------ bounds

\* At most MaxSessions cards are detected by the payment reader.
MaxSessions == 2
\* At most MaxRxChunks host transmissions wait in the serial receive buffer.
MaxRxChunks == 1

\* --------------------------------------------------------------- constants

RESPONSE_TIMEOUT == 10000
carPlateBlock == 2
balanceBlock == 4

\* -------------------------------------------------------------- characters

NUL == "NUL"
SP == " "
NL == "\n"
CR == "\r"

Digits == <<"0", "1", "2", "3", "4", "5", "6", "7", "8", "9">>

IsDigit(c) == \E i \in 1..10 : Digits[i] = c

DigitVal(c) == (CHOOSE i \in 1..10 : Digits[i] = c) - 1

\* <ctype.h> isspace in the C locale
isspace(c) == c \in {" ", "\t", "\n", "\r", "\f"}

RECURSIVE Rep(_, _)
Rep(c, k) == IF k <= 0 THEN <<>> ELSE <<c>> \o Rep(c, k - 1)

Blank == Rep(NUL, 16)

\* ----------------------------------------------------- Arduino String ops

\* String::trim(): strips isspace characters from both ends, nothing else
\* (a NUL byte is not a space and stops the scan).
RECURSIVE TrimLeft(_)
TrimLeft(s) ==
    IF s # <<>> /\ isspace(Head(s)) THEN TrimLeft(Tail(s)) ELSE s

RECURSIVE TrimRight(_)
TrimRight(s) ==
    IF s # <<>> /\ isspace(s[Len(s)])
    THEN TrimRight(SubSeq(s, 1, Len(s) - 1))
    ELSE s

trim(s) == TrimRight(TrimLeft(s))

\* String::startsWith("[")
startsWithBracket(s) == s # <<>> /\ Head(s) = "["

LONG_MAX == 2147483647
LONG_MIN == -2147483647 - 1

\* The digit loop of atol on a 32-bit accumulator <<hi, lo>> (16-bit halves);
\* ovf records that the mathematical value left the range of long.
RECURSIVE Accumulate(_, _, _, _, _)
Accumulate(s, i, hi, lo, ovf) ==
    IF i > Len(s) \/ ~IsDigit(s[i])
    THEN [hi |-> hi, lo |-> lo, ovf |-> ovf]
    ELSE LET lo2 == lo * 10 + DigitVal(s[i])
             hi2 == hi * 10 + (lo2 \div 65536)
         IN  Accumulate(s, i + 1, hi2 % 65536, lo2 % 65536,
                        ovf \/ hi2 >= 32768)

\* The 32-bit pattern <<hi, lo>> read as a signed long.
Signed(hi, lo) ==
    IF hi >= 32768 THEN (hi - 65536) * 65536 + lo ELSE hi * 65536 + lo

\* Two's complement negation of the pattern <<hi, lo>>, as a signed long.
NegSigned(hi, lo) ==
    IF lo = 0
    THEN Signed((65536 - hi) % 65536, 0)
    ELSE Signed(65535 - hi, 65536 - lo)

RECURSIVE SkipSpace(_, _)
SkipSpace(s, i) ==
    IF i <= Len(s) /\ isspace(s[i]) THEN SkipSpace(s, i + 1) ELSE i

\* String::toInt() is atol(buffer): leading white space, an optional sign,
\* then digits up to the first other character; no digits gives 0.  A value
\* outside long is undefined behaviour: the build either wraps modulo 2^32
\* (avr-libc) or saturates (strtol based libraries), so toInt is the set of
\* values it can return.
toInt(s) ==
    LET i0 == SkipSpace(s, 1)
        signed == i0 <= Len(s) /\ s[i0] \in {"-", "+"}
        neg == i0 <= Len(s) /\ s[i0] = "-"
        i1 == IF signed THEN i0 + 1 ELSE i0
        a == Accumulate(s, i1, 0, 0, FALSE)
        wrapped == IF neg THEN NegSigned(a.hi, a.lo) ELSE Signed(a.hi, a.lo)
        saturated == IF neg THEN LONG_MIN ELSE LONG_MAX
    IN  IF a.ovf THEN {wrapped, saturated} ELSE {wrapped}

\* String(long) for a value >= 0: its minimal decimal digits.
RECURSIVE StringOfLong(_)
StringOfLong(v) ==
    IF v < 10 THEN <<Digits[v + 1]>>
    ELSE StringOfLong(v \div 10) \o <<Digits[(v % 10) + 1]>>

\* String::getBytes(buf, bufsize): copies at most bufsize - 1 characters and
\* terminates them with a NUL byte (the bytes written to buf).
getBytes(data, bufsize) ==
    LET n == IF Len(data) < bufsize - 1 THEN Len(data) ELSE bufsize - 1
    IN  SubSeq(data, 1, n) \o <<NUL>>

\* `while (data.length() < 16) data += ' ';`
padString(data) == data \o Rep(SP, 16 - Len(data))

\* The 16-byte buffer writeBlockData hands to MIFARE_Write.
writeBuffer(data) == getBytes(SubSeq(padString(trim(data)), 1, 16), 16)

\* The String readBlockData builds from the 16 bytes read, then trims.
decodeBlock(buffer) == trim(SubSeq(buffer, 1, 16))


\* The markers readBlockData returns instead of data.
AuthFailMarker == <<"[", "A", "u", "t", "h", " ", "F", "a", "i", "l", "]">>
ReadFailMarker == <<"[", "R", "e", "a", "d", " ", "F", "a", "i", "l", "]">>

\* ------------------------------------------------------------------- state

VARIABLES
    \* process_payment.ino globals
    awaitingUpdate, sentReady, currentPlate, currentBalance, readySentTime,
    \* the payment device: millis() clock, serial receive buffer, Crypto1 unit
    millis, rx, cryptoOn,
    \* the tag: its data blocks 2 and 4, the reader it lies on, HaltA received
    blocks, tagAt, halted,
    \* history of the payment session in progress or last ended:
    \* session counts the card detections; tx lists the lines printed,
    \* sentLine is the `plate,balance` line, rd the outcome of the two block
    \* reads, wr the calls of writeBlockData, received the host line consumed
    session, tx, sentLine, rd, wr, received,
    \* top_up.ino: where loop() stands (idle, at the plate prompt, at the
    \* balance prompt), its two buffers, the operator's serial input not yet
    \* read, and the lines printed for the card being registered (of a
    \* prompt that is repeated, the answer to its last round)
    pstate, carPlateBuff, balanceBuff, opRx, ptx,
    \* what the operator had entered before the terminator when the last
    \* round of a prompt read the serial input
    entered,
    \* per block, the operator input the provisioning sketch last wrote to
    \* the tag with success, while no other write has replaced it
    written

paymentVars == <<awaitingUpdate, sentReady, currentPlate, currentBalance,
                 readySentTime, cryptoOn>>
historyVars == <<session, tx, sentLine, rd, wr, received>>
provVars == <<pstate, carPlateBuff, balanceBuff, opRx, ptx, entered>>
vars == <<paymentVars, millis, rx, blocks, tagAt, halted, historyVars,
          provVars, written>>

\* --------------------------------------------------- tag access capability

\* PCD_Authenticate, MIFARE_Read and MIFARE_Write can succeed only while the
\* tag lies on the reader, and can fail at any time (the tag is moved away,
\* the contactless link is unreliable).
TagOutcomes(reader) == IF tagAt = reader THEN {TRUE, FALSE} ELSE {FALSE}

\* PICC_IsNewCardPresent() && PICC_ReadCardSerial(): a tag that received
\* HaltA does not answer until it is presented again.
CardDetectable(reader) == tagAt = reader /\ ~halted

\* ------------------------------------------- payment controller, as records

\* The state the payment loop reads and writes, as one record.
Cur ==
    [awaitingUpdate |-> awaitingUpdate, sentReady |-> sentReady,
     currentPlate |-> currentPlate, currentBalance |-> currentBalance,
     readySentTime |-> readySentTime, millis |-> millis, rx |-> rx,
     cryptoOn |-> cryptoOn, blocks |-> blocks, halted |-> halted,
     session |-> session, tx |-> tx, sentLine |-> sentLine, rd |-> rd,
     wr |-> wr, received |-> received, written |-> written]

Install(s) ==
    /\ awaitingUpdate' = s.awaitingUpdate
    /\ sentReady' = s.sentReady
    /\ currentPlate' = s.currentPlate
    /\ currentBalance' = s.currentBalance
    /\ readySentTime' = s.readySentTime
    /\ millis' = s.millis
    /\ rx' = s.rx
    /\ cryptoOn' = s.cryptoOn
    /\ blocks' = s.blocks
    /\ halted' = s.halted
    /\ session' = s.session
    /\ tx' = s.tx
    /\ sentLine' = s.sentLine
    /\ rd' = s.rd
    /\ wr' = s.wr
    /\ received' = s.received
    /\ written' = s.written

\* Serial.println of one of the sketch's lines.
Emit(s, line) == [s EXCEPT !.tx = Append(@, line)]

\* delay(ms)
Delay(s, ms) == [s EXCEPT !.millis = @ + ms]

\* mfrc522.PICC_HaltA(); mfrc522.PCD_StopCrypto1();
HaltAndStop(s) == [s EXCEPT !.halted = TRUE, !.cryptoOn = FALSE]

\* readBlockData(blockNumber, label): the states and Strings it can return.
readBlockData(s, blockNumber) ==
    UNION {
        IF ~auth
        THEN {[s |-> [Emit(s, "AuthFailedFor") EXCEPT !.rd = Append(@, "auth")],
               data |-> AuthFailMarker]}
        ELSE {IF ~read
              THEN [s |-> [Emit(s, "ReadFailedFor") EXCEPT
                              !.rd = Append(@, "read"), !.cryptoOn = TRUE],
                    data |-> ReadFailMarker]
              ELSE [s |-> [s EXCEPT !.rd = Append(@, "ok"), !.cryptoOn = TRUE],
                    data |-> decodeBlock(s.blocks[blockNumber])]
              : read \in TagOutcomes("payment")}
        : auth \in TagOutcomes("payment")}

\* writeBlockData(blockNumber, data): the states it can leave.
writeBlockData(s, blockNumber, data) ==
    LET buffer == writeBuffer(data)
        call(status) == [block |-> blockNumber, buffer |-> buffer,
                         status |-> status]
    IN  UNION {
        IF ~auth
        THEN {[Emit(s, "AuthFailedOnWrite") EXCEPT
                  !.wr = Append(@, call("auth"))]}
        ELSE {IF ~write
              THEN [Emit(s, "WriteFailed") EXCEPT
                       !.wr = Append(@, call("write")), !.cryptoOn = TRUE]
              ELSE [s EXCEPT !.wr = Append(@, call("ok")), !.cryptoOn = TRUE,
                             !.blocks[blockNumber] = buffer,
                             !.written[blockNumber] = <<>>]
              : write \in TagOutcomes("payment")}
        : auth \in TagOutcomes("payment")}


\* Serial.readStringUntil('\n'): the characters before the first newline,
\* which is consumed too; with no newline in the buffer the read gives up
\* after the stream timeout (1000 ms) and returns all that had arrived.
FirstNewline(buf) == CHOOSE i \in 1..Len(buf) :
                        buf[i] = NL /\ \A j \in 1..(i - 1) : buf[j] # NL

HasNewline(buf) == \E i \in 1..Len(buf) : buf[i] = NL

readStringUntil(buf) ==
    IF HasNewline(buf)
    THEN [line |-> SubSeq(buf, 1, FirstNewline(buf) - 1),
          rest |-> SubSeq(buf, FirstNewline(buf) + 1, Len(buf)),
          waited |-> 0]
    ELSE [line |-> buf, rest |-> <<>>, waited |-> 1000]

\* Variant: only the plate is validated.
PlateOnlyCheck(plate, balanceStr) == startsWithBracket(plate)

\* `currentPlate.startsWith("[") || balanceStr.startsWith("[")`
InvalidCardData(plate, balanceStr) ==
    startsWithBracket(plate) \/ startsWithBracket(balanceStr)

\* Variant: the timeout expires at the limit already.
TimedOutAtLimit(now, since) == now - since >= RESPONSE_TIMEOUT

\* `millis() - readySentTime > RESPONSE_TIMEOUT`
TimedOut(now, since) == now - since > RESPONSE_TIMEOUT

\* Variant: the denial letter is not recognised.
NeverDeny(response) == FALSE

\* `response == "I"`
IsDeny(response) == response = <<"I">>

\* `newBalance >= 0`
ValidBalance(newBalance) == newBalance >= 0

\* Variant: the update goes to the plate block.
WrongBlock == carPlateBlock

\* The block the loop rewrites (`writeBlockData(4, ...)`).
UpdatedBlock == balanceBlock

\* loop(), lines 60-84: the card reading phase.  ret tells that loop returned.
CardReadingPhase(s) ==
    IF s.awaitingUpdate
    THEN {[s |-> s, ret |-> FALSE]}
    ELSE {[s |-> s, ret |-> TRUE]} \cup
         IF ~CardDetectable("payment") \/ s.session >= MaxSessions
         THEN {}
         ELSE LET s0 == [s EXCEPT !.session = @ + 1, !.tx = <<>>,
                                  !.sentLine = <<>>, !.rd = <<>>,
                                  !.wr = <<>>, !.received = <<>>]
              IN  UNION { UNION {
                    LET s2 == [r4.s EXCEPT !.currentPlate = r2.data]
                        balanceStr == r4.data
                    IN  IF InvalidCardData(s2.currentPlate, balanceStr)
                        THEN {[s |-> Delay(HaltAndStop(
                                       Emit(s2, "InvalidCardData")), 2000),
                               ret |-> TRUE]}
                        ELSE {[s |-> [Emit(s2, "PlateBalance") EXCEPT
                                        !.currentBalance = v,
                                        !.sentLine = s2.currentPlate
                                                     \o <<",">> \o balanceStr,
                                        !.awaitingUpdate = TRUE,
                                        !.sentReady = FALSE],
                               ret |-> FALSE] : v \in toInt(balanceStr)}
                    : r4 \in readBlockData(r2.s, balanceBlock)}
                    : r2 \in readBlockData(s0, carPlateBlock)}

\* Variant: sentReady is not consulted.
ReadyEveryPass(s) ==
    IF s.awaitingUpdate
    THEN [Emit(s, "READY") EXCEPT !.sentReady = TRUE,
                                  !.readySentTime = s.millis]
    ELSE s

\* loop(), lines 87-91: the READY signal.
ReadySendPhase(s) ==
    IF s.awaitingUpdate /\ ~s.sentReady
    THEN [Emit(s, "READY") EXCEPT !.sentReady = TRUE,
                                  !.readySentTime = s.millis]
    ELSE s

\* Variant: the flags survive the end of the session.
ResetKeepsFlags(t) == Delay(HaltAndStop(t), 2000)

\* loop(), lines 138-143: the state is reset once the response is handled.
ResetState(t) ==
    Delay(HaltAndStop([t EXCEPT !.awaitingUpdate = FALSE,
                                !.sentReady = FALSE]), 2000)

\* loop(), lines 107-144: a host response is available.
ProcessResponse(s) ==
    LET r == readStringUntil(s.rx)
        response == trim(r.line)
        s1 == [Emit(Delay(s, r.waited), "ReceivedFromPC") EXCEPT
                  !.rx = r.rest, !.received = <<r.line>>]
    IN  IF IsDeny(response)
        THEN {ResetState(Emit(s1, "Denied"))}
        ELSE UNION {
               IF ValidBalance(newBalance)
               THEN {ResetState(Emit(Emit(w, "DONE"), "Updated"))
                     : w \in writeBlockData(Emit(s1, "Writing"), UpdatedBlock,
                                            StringOfLong(newBalance))}
               ELSE {ResetState(Emit(s1, "InvalidNewBalance"))}
               : newBalance \in toInt(trim(response))}

\* Variant: the wait for the PC response has no timeout.
ResponsePhaseNoTimeout(s) ==
    IF ~(s.awaitingUpdate /\ s.sentReady)
    THEN {s}
    ELSE IF Len(s.rx) > 0
    THEN ProcessResponse(s)
    ELSE {s}

\* loop(), lines 94-145: waiting for the PC response.
ResponsePhase(s) ==
    IF ~(s.awaitingUpdate /\ s.sentReady)
    THEN {s}
    ELSE IF TimedOut(s.millis, s.readySentTime)
    THEN {Delay(HaltAndStop([Emit(s, "Timeout") EXCEPT
                                !.awaitingUpdate = FALSE,
                                !.sentReady = FALSE]), 1000)}
    ELSE IF Len(s.rx) > 0
    THEN ProcessResponse(s)
    ELSE {s}

\* One pass of loop() of the payment sketch.
loop ==
    \E p \in CardReadingPhase(Cur) :
        \E s \in (IF p.ret THEN {p.s} ELSE ResponsePhase(ReadySendPhase(p.s))) :
            /\ Install(s)
            /\ UNCHANGED <<tagAt, provVars>>

\* ------------------------------------------------------------- environment

\* What the operator of the provisioning sketch types (top_up.ino prompts).
ScenarioPlate == <<"R", "A", "G", "2", "3", "4", "H">>
ScenarioBalance == <<"5", "0", "0", "0">>

\* What the host writes to the serial link: complete lines and a fragment
\* of a line whose newline has not been sent yet.
HostLines ==
    { <<"I", NL>>,
      <<"3", "5", "0", "0", NL>>,
      <<"3", "5", "0", "0", CR, NL>>,
      <<NL>>,
      <<"a", "b", "c", NL>>,
      <<"-", "5", NL>>,
      <<"4", "2", "9", "4", "9", "6", "7", "3", "0", "1", NL>> }

HostFragments == { <<"3", "5">> }

CountNewlines(buf) == Cardinality({i \in 1..Len(buf) : buf[i] = NL})

EndsInFragment(buf) == buf # <<>> /\ buf[Len(buf)] # NL

\* The host sends bytes at any time, whatever the controller is doing.  A
\* fragment followed by the rest of its line is the same buffer as the
\* complete line, so nothing is appended to a pending fragment.
HostSend ==
    /\ \E chunk \in HostLines \cup HostFragments :
          /\ CountNewlines(rx) < MaxRxChunks
          /\ ~EndsInFragment(rx)
          /\ rx' = rx \o chunk
    /\ UNCHANGED <<paymentVars, millis, blocks, tagAt, halted, historyVars,
                   provVars, written>>

\* Time passes between two passes of loop().  The sketch reads the clock
\* only as the time since READY, so time is followed while an answer is
\* awaited and until the timeout has expired.
Tick ==
    /\ awaitingUpdate
    /\ ~TimedOut(millis, readySentTime)
    /\ millis' = millis + RESPONSE_TIMEOUT
    /\ UNCHANGED <<paymentVars, rx, blocks, tagAt, halted, historyVars,
                   provVars, written>>

\* The tag is taken off the payment reader and presented to it again: a new
\* presentation ends HaltA.
PresentTag ==
    /\ tagAt = "payment"
    /\ halted
    /\ halted' = FALSE
    /\ UNCHANGED <<paymentVars, millis, rx, blocks, tagAt, historyVars,
                   provVars, written>>

\* ------------------------------------------------ provisioning controller

\* Variant: the padding byte is 0.
padBufferNul(buffer, len) == SubSeq(buffer, 1, len) \o Rep(NUL, 16 - len)

\* top_up.ino padBuffer(buffer, len): bytes len..15 become spaces.
padBuffer(buffer, len) == SubSeq(buffer, 1, len) \o Rep(SP, 16 - len)

\* Serial.readBytesUntil('#', buffer, 16) on the bytes `avail` that arrive
\* before the 20000 ms timeout: bytes are stored until the terminator (which
\* is consumed, not stored), until 16 are stored, or until none is left.
RECURSIVE readBytesUntil(_, _)
readBytesUntil(avail, got) ==
    IF Len(got) >= 16 \/ avail = <<>>
    THEN [data |-> got, rest |-> avail]
    ELSE IF Head(avail) = "#"
    THEN [data |-> got, rest |-> Tail(avail)]
    ELSE readBytesUntil(Tail(avail), Append(got, Head(avail)))

\* The characters of the serial input that precede the terminator `#` (all
\* of them when no terminator was sent).
RECURSIVE BeforeTerminator(_)
BeforeTerminator(stream) ==
    IF stream = <<>> \/ Head(stream) = "#" THEN <<>>
    ELSE <<Head(stream)>> \o BeforeTerminator(Tail(stream))

\* The buffer after readBytesUntil stored `data` at its start.
Stored(buffer, data) == data \o SubSeq(buffer, Len(data) + 1, 16)

\* Variant: longer plates pass too.
AtLeastSeven(len) == len >= 7

\* `len == 7`
ValidPlateLength(len) == len = 7

\* `len > 0 && len <= 16`
ValidBalanceLength(len) == len > 0 /\ len <= 16

\* flushSerial(): reads the input buffer empty.
flushSerial(buf) == <<>>

\* What the operator types at a prompt, terminator included; <<>> is an
\* operator who types nothing before the timeout.
TypedPlates ==
    { <<>>,
      <<"R", "A", "G", "2", "3", "4", "H", "#">>,
      <<"[", "A", "G", "2", "3", "4", "H", "#">>,
      <<"R", "A", "G", "2", "3", "4", "#">>,
      <<"R", "A", "G", "2", "3", "4", "H", "X", "#">> }

TypedBalances ==
    { <<>>,
      <<"5", "0", "0", "0", "#">>,
      <<"[", "5", "#">>,
      <<"1", "2", "3", "4", "5", "6", "7", "8", "9", "0",
        "1", "2", "3", "4", "5", "6", "#">>,
      <<"1", "2", "3", "4", "5", "6", "7", "8", "9", "0",
        "1", "2", "3", "4", "5", "6", "7", "#">> }

\* A stack buffer of loop() that holds nothing the sketch stored: its bytes
\* are indeterminate, and the sketch never writes them to the tag.
Unset == Rep("?", 16)

\* loop() lines 59-62: a card is detected.
ProvDetect ==
    /\ pstate = "idle"
    /\ CardDetectable("provisioning")
    /\ pstate' = "plate"
    /\ ptx' = <<"CardDetected">>
    /\ entered' = <<>>
    /\ UNCHANGED <<paymentVars, millis, rx, blocks, tagAt, halted,
                   historyVars, carPlateBuff, balanceBuff, opRx, written>>

\* loop() lines 69-83: one round of the plate prompt.
ProvReadPlate ==
    /\ pstate = "plate"
    /\ \E typed \in TypedPlates :
          LET r == readBytesUntil(opRx \o typed, <<>>)
              len == Len(r.data)
          IN  /\ entered' = BeforeTerminator(opRx \o typed)
              /\ IF ValidPlateLength(len)
                  THEN /\ carPlateBuff' = padBuffer(Stored(carPlateBuff, r.data), len)
                       /\ opRx' = r.rest
                       /\ pstate' = "balance"
                       /\ ptx' = <<"CardDetected", "PlateAccepted">>
                  ELSE /\ carPlateBuff' = Stored(carPlateBuff, r.data)
                       /\ opRx' = flushSerial(r.rest)
                       /\ pstate' = "plate"
                       /\ ptx' = <<"CardDetected", "InvalidLength">>
    /\ UNCHANGED <<paymentVars, millis, rx, blocks, tagAt, halted,
                   historyVars, balanceBuff, written>>

\* Variant: a failed authentication is not reported.
writeBytesToBlockSilent(bl, block, buff, auth, write) ==
    IF ~auth
    THEN [blocks |-> bl, out |-> <<>>, ok |-> FALSE]
    ELSE IF ~write
    THEN [blocks |-> bl, out |-> <<"AuthenticationSuccess", "WriteFailed">>,
          ok |-> FALSE]
    ELSE [blocks |-> [bl EXCEPT ![block] = buff],
          out |-> <<"AuthenticationSuccess", "DataWritten">>, ok |-> TRUE]

\* writeBytesToBlock(block, buff) with the outcomes auth and write of the
\* two tag commands: the tag's blocks, the lines printed, the block written.
writeBytesToBlock(bl, block, buff, auth, write) ==
    IF ~auth
    THEN [blocks |-> bl, out |-> <<"AuthenticationFailed">>, ok |-> FALSE]
    ELSE IF ~write
    THEN [blocks |-> bl, out |-> <<"AuthenticationSuccess", "WriteFailed">>,
          ok |-> FALSE]
    ELSE [blocks |-> [bl EXCEPT ![block] = buff],
          out |-> <<"AuthenticationSuccess", "DataWritten">>, ok |-> TRUE]

\* loop() lines 86-126: one round of the balance prompt and, once a balance
\* is accepted, the two writes, the confirmation lines and the cleanup.
ProvReadBalance ==
    /\ pstate = "balance"
    /\ \E typed \in TypedBalances :
          LET r == readBytesUntil(opRx \o typed, <<>>)
              len == Len(r.data)
          IN  /\ entered' = BeforeTerminator(opRx \o typed)
              /\ IF ValidBalanceLength(len)
                  THEN \E a2 \in TagOutcomes("provisioning"),
                          w2 \in TagOutcomes("provisioning"),
                          a4 \in TagOutcomes("provisioning"),
                          w4 \in TagOutcomes("provisioning") :
                         LET buff == padBuffer(Stored(balanceBuff, r.data), len)
                             p == writeBytesToBlock(blocks, carPlateBlock,
                                                    carPlateBuff, a2, w2)
                             b == writeBytesToBlock(p.blocks, balanceBlock,
                                                    buff, a4, w4)
                         IN  /\ balanceBuff' = Unset
                             /\ carPlateBuff' = Unset
                             /\ opRx' = r.rest
                             /\ blocks' = b.blocks
                             /\ written' =
                                  [written EXCEPT
                                     ![carPlateBlock] =
                                         IF p.ok THEN <<SubSeq(carPlateBuff, 1, 7)>>
                                         ELSE @,
                                     ![balanceBlock] =
                                         IF b.ok THEN <<r.data>> ELSE @]
                             /\ ptx' = <<"CardDetected", "PlateAccepted",
                                          "BalanceAccepted">> \o p.out \o b.out
                                           \o <<"PlateWritten", "BalanceWritten">>
                             /\ halted' = TRUE
                             /\ pstate' = "idle"
                  ELSE /\ balanceBuff' = Stored(balanceBuff, r.data)
                       /\ opRx' = flushSerial(r.rest)
                       /\ pstate' = "balance"
                       /\ ptx' = <<"CardDetected", "PlateAccepted",
                                    "InvalidBalance">>
                       /\ UNCHANGED <<blocks, written, halted, carPlateBuff>>
    /\ UNCHANGED <<paymentVars, millis, rx, tagAt, historyVars>>

\* The tag is put on one of the two readers: a new presentation ends HaltA.
\* It is carried over between two sessions; a tag lost during a session is
\* a tag command that fails (TagOutcomes).
PlaceTag ==
    /\ pstate = "idle"
    /\ ~awaitingUpdate
    /\ \E reader \in {"payment", "provisioning"} :
          /\ tagAt # reader \/ halted
          /\ tagAt' = reader
    /\ halted' = FALSE
    /\ UNCHANGED <<paymentVars, millis, rx, blocks, historyVars, provVars,
                   written>>

\* --------------------------------------------------------- specifications

\* The state after setup() of either sketch, whatever the tag.
InitDevices ==
    /\ awaitingUpdate = FALSE
    /\ sentReady = FALSE
    /\ currentPlate = <<>>
    /\ currentBalance = 0
    /\ readySentTime = 0
    /\ millis = 0
    /\ rx = <<>>
    /\ cryptoOn = FALSE
    /\ halted = FALSE
    /\ session = 0
    /\ tx = <<>>
    /\ sentLine = <<>>
    /\ rd = <<>>
    /\ wr = <<>>
    /\ received = <<>>
    /\ pstate = "idle"
    /\ carPlateBuff = Unset
    /\ balanceBuff = Unset
    /\ opRx = <<>>
    /\ ptx = <<>>
    /\ entered = <<>>

\* The payment sketch with its host, and a tag the provisioning sketch wrote.
Init ==
    /\ InitDevices
    /\ tagAt = "payment"
    /\ blocks = [b \in {carPlateBlock, balanceBlock} |->
                    IF b = carPlateBlock THEN padBuffer(ScenarioPlate, 7)
                                         ELSE padBuffer(ScenarioBalance, 4)]
    /\ written = [b \in {carPlateBlock, balanceBlock} |->
                    IF b = carPlateBlock THEN <<ScenarioPlate>>
                                         ELSE <<ScenarioBalance>>]

Next == loop \/ HostSend \/ Tick \/ PresentTag

Spec == Init /\ [][Next]_vars

\* The pass of loop() that finds the timeout expired (lines 94-104).
TimeoutPass ==
    /\ awaitingUpdate /\ sentReady
    /\ TimedOut(millis, readySentTime)
    /\ loop

\* The payment sketch as the Arduino core runs it: the millis() clock
\* advances and main() calls loop() again and again, so that a pass of
\* loop() runs once the timeout has expired.  Nothing is assumed of the
\* host, and nothing of the passes of loop() before the timeout.
LiveSpec == Spec /\ WF_vars(Tick) /\ WF_vars(TimeoutPass)

\* Both sketches and a factory-blank tag carried from one reader to the
\* other; the host of the payment sketch stays silent.
InitProv ==
    /\ InitDevices
    /\ tagAt = "provisioning"
    /\ blocks = [b \in {carPlateBlock, balanceBlock} |-> Blank]
    /\ written = [b \in {carPlateBlock, balanceBlock} |-> <<>>]

NextProv ==
    ProvDetect \/ ProvReadPlate \/ ProvReadBalance \/ PlaceTag \/ loop \/ Tick

SpecProv == InitProv /\ [][NextProv]_vars

\* The block codec alone: a decimal string is written to block 4 by
\* writeBlockData, then read back by readBlockData and parsed by toInt.
CodecInputs ==
    { <<"0">>,
      <<"2", "1", "4", "7", "4", "8", "3", "6", "4", "7">>,
      <<"2", "1", "4", "7", "4", "8", "3", "6", "4", "8">> }
    \cup { <<Digits[d + 1]>> \o Rep("0", k) : d \in 1..9, k \in 0..15 }

CodecEncode ==
    /\ wr = <<>>
    /\ \E n \in CodecInputs :
          \E s \in writeBlockData(Cur, balanceBlock, n) :
              Install([s EXCEPT !.received = <<n>>])
    /\ UNCHANGED <<tagAt, provVars>>

CodecDecode ==
    /\ wr # <<>>
    /\ rd = <<>>
    /\ \E r \in readBlockData(Cur, balanceBlock) :
          \E v \in (IF r.s.rd = <<"ok">> THEN toInt(r.data)
                                         ELSE {currentBalance}) :
              Install([r.s EXCEPT !.currentBalance = v, !.sentLine = r.data])
    /\ UNCHANGED <<tagAt, provVars>>

CodecNext == CodecEncode \/ CodecDecode

CodecSpec == Init /\ [][CodecNext]_vars

\* ------------------------------------------------------------- properties

Printed(line) == \E i \in 1..Len(tx) : tx[i] = line

Count(line) == Cardinality({i \in 1..Len(tx) : tx[i] = line})

Pos(line) == CHOOSE i \in 1..Len(tx) : tx[i] = line

\* A non-empty string of decimal digits.
IsDecimal(str) == str # <<>> /\ \A i \in 1..Len(str) : IsDigit(str[i])

\* The minimal decimal digits of the number a digit string denotes.
RECURSIVE StripZeros(_)
StripZeros(str) ==
    IF Len(str) > 1 /\ Head(str) = "0" THEN StripZeros(Tail(str)) ELSE str

\* The characters of a block before its padding (space or NUL).
RECURSIVE BlockValue(_)
BlockValue(buffer) ==
    IF buffer = <<>> \/ Head(buffer) \in {SP, NUL} THEN <<>>
    ELSE <<Head(buffer)>> \o BlockValue(Tail(buffer))

\* The host line consumed in the session, trimmed.
Decision == trim(received[1])

WriteSucceeded == wr # <<>> /\ wr[Len(wr)].status = "ok"

Outcomes == {"DONE", "Denied", "InvalidNewBalance", "Timeout"}

\* A step of the payment loop that consumes a host line.
ConsumesLine ==
    received' # <<>> /\ (session' # session \/ received = <<>>)

\* A step of the payment loop that detects a card.
DetectsCard == session' # session

\* C1: writeBlockData is called only in a session that sent READY and then
\* received a host line that is a string of decimal digits.
C1_WriteOnlyOnValidDecision ==
    wr # <<>> =>
        /\ Printed("READY")
        /\ received # <<>>
        /\ IsDecimal(Decision)

\* C2: when the host line is a number n of at most 16 digits and the write
\* succeeds, block 4 holds the digits of n and DONE is printed.
C2_CommitWritesSentNumber ==
    (received # <<>> /\ IsDecimal(Decision) /\ Len(Decision) <= 16
        /\ WriteSucceeded) =>
        /\ BlockValue(blocks[balanceBlock]) = StripZeros(Decision)
        /\ Printed("DONE")

\* C3: a host line `I` gives the denial notice, no write, no DONE, and ends
\* the session: tag halted, crypto stopped, both flags cleared.
C3_Deny ==
    /\ [](received # <<>> /\ Decision = <<"I">> =>
            Printed("Denied") /\ wr = <<>> /\ ~Printed("DONE")
                /\ ~awaitingUpdate /\ ~sentReady)
    /\ [][ConsumesLine /\ trim(received'[1]) = <<"I">> =>
            /\ blocks' = blocks
            /\ halted' /\ ~cryptoOn'
            /\ ~awaitingUpdate' /\ ~sentReady']_vars

C3_Witness ==
    received # <<>> /\ Decision = <<"I">> /\ Printed("Denied") /\ halted

\* C4: a pass of the loop that finds more than 10000 ms elapsed since READY
\* prints the timeout notice, writes nothing, leaves the host's bytes
\* unread, halts the tag and clears both flags; with 10000 ms or less
\* elapsed no timeout notice is printed.
C4_Timeout ==
    /\ [][(awaitingUpdate /\ millis - readySentTime > RESPONSE_TIMEOUT
              /\ <<paymentVars, historyVars, blocks, halted, millis>>'
                    # <<paymentVars, historyVars, blocks, halted, millis>>) =>
            /\ tx' = Append(tx, "Timeout")
            /\ blocks' = blocks /\ wr' = <<>>
            /\ rx' = rx /\ received' = <<>>
            /\ halted' /\ ~cryptoOn'
            /\ ~awaitingUpdate' /\ ~sentReady']_vars
    /\ [][(awaitingUpdate /\ millis - readySentTime <= RESPONSE_TIMEOUT) =>
            \A i \in 1..Len(tx') : tx'[i] # "Timeout"]_vars

C4_Witness ==
    /\ Printed("Timeout") /\ rx # <<>> /\ ~awaitingUpdate /\ halted
    /\ blocks[balanceBlock] = padBuffer(ScenarioBalance, 4)

\* C5: a pass of the loop in which authentication or read fails on block 2
\* or block 4 prints neither the `plate,balance` line nor READY, writes
\* nothing, halts the tag, stops the crypto session and stays idle.
C5_ReadFailure ==
    /\ []((\E i \in 1..Len(rd) : rd[i] # "ok") =>
            ~Printed("PlateBalance") /\ ~Printed("READY") /\ sentLine = <<>>
                /\ wr = <<>> /\ received = <<>> /\ ~awaitingUpdate)
    /\ [][(DetectsCard /\ \E i \in 1..Len(rd') : rd'[i] # "ok") =>
            /\ blocks' = blocks
            /\ halted' /\ ~cryptoOn'
            /\ ~awaitingUpdate' /\ ~sentReady']_vars

C5_Witness ==
    rd = <<"ok", "read">> /\ Printed("InvalidCardData") /\ halted

\* C6: per session the `plate,balance` line and READY are printed once
\* each, in that order, before any outcome, and READY only after both
\* blocks were read.
C6_OnceInOrder ==
    /\ Count("PlateBalance") <= 1
    /\ Count("READY") <= 1
    /\ Printed("PlateBalance") <=> Printed("READY")
    /\ Printed("READY") =>
          Pos("PlateBalance") < Pos("READY") /\ rd = <<"ok", "ok">>
    /\ awaitingUpdate => Printed("READY")
    /\ \A i \in 1..Len(tx) :
          tx[i] \in Outcomes => Printed("READY") /\ Pos("READY") < i

C6_Witness ==
    Printed("READY") /\ Printed("DONE") /\ session = 2

\* C7: DONE is printed only after a successful write of block 4.
C7_DoneOnlyAfterWrite ==
    Printed("DONE") => WriteSucceeded

\* C8: the payment loop writes block 4 only; block 2 never changes.
C8_PlateBlockUntouched ==
    /\ [](\A i \in 1..Len(wr) : wr[i].block = balanceBlock)
    /\ [][blocks'[carPlateBlock] = blocks[carPlateBlock]]_vars

C8_Witness ==
    WriteSucceeded /\ blocks[balanceBlock] # padBuffer(ScenarioBalance, 4)

\* C9: a number of at most 16 digits written by writeBlockData and read
\* back by readBlockData parses to itself.
C9_IntegerRoundTrip ==
    (received # <<>> /\ WriteSucceeded /\ rd = <<"ok">>) =>
        currentBalance >= 0 /\ StringOfLong(currentBalance) = received[1]

\* No white space at either end.
Trimmed(str) == str # <<>> /\ ~isspace(Head(str)) /\ ~isspace(str[Len(str)])

\* The provisioning sketch wrote plate and balance, both trimmed, and the
\* payment loop detects the card and reads both blocks.
ReadsProvisionedTag ==
    /\ DetectsCard
    /\ rd' = <<"ok", "ok">>
    /\ written[carPlateBlock] # <<>> /\ Trimmed(written[carPlateBlock][1])
    /\ written[balanceBlock] # <<>> /\ Trimmed(written[balanceBlock][1])

SendsWhatWasWritten ==
    /\ currentPlate' = written[carPlateBlock][1]
    /\ Printed("PlateBalance")'
    /\ sentLine' = written[carPlateBlock][1] \o <<",">>
                      \o written[balanceBlock][1]

\* C10 as stated: every plate and balance the provisioning sketch wrote
\* come back as the line `p,b`.
C10_StringRoundTrip ==
    [][ReadsProvisionedTag => SendsWhatWasWritten]_vars

\* C10 amended: every plate and balance the provisioning sketch wrote,
\* neither beginning with `[`, come back as the line `p,b`.
C10_StringRoundTripNoBracket ==
    [][(ReadsProvisionedTag
          /\ Head(written[carPlateBlock][1]) # "["
          /\ Head(written[balanceBlock][1]) # "[") =>
        SendsWhatWasWritten]_vars

C10_Witness ==
    /\ rd = <<"ok", "ok">> /\ Printed("READY")
    /\ written[carPlateBlock] = <<ScenarioPlate>>
    /\ written[balanceBlock] # <<>>
    /\ Len(written[balanceBlock][1]) = 16
    /\ sentLine = ScenarioPlate \o <<",">> \o written[balanceBlock][1]

\* A 16-byte buffer that holds the value followed by spaces only.
SpacePadded(buffer, value) == buffer = value \o Rep(SP, 16 - Len(value))

\* C11: every buffer handed to MIFARE_Write is the value followed by spaces
\* up to byte 16: the buffer of the payment loop is the decimal digits of
\* the balance it commits, the buffer of the provisioning sketch the
\* operator's input, each padded with spaces only.
C11_SpacePaddedBuffers ==
    /\ \A i \in 1..Len(wr) :
          \E n \in toInt(Decision) :
              n >= 0 /\ SpacePadded(wr[i].buffer, StringOfLong(n))
    /\ \A b \in {carPlateBlock, balanceBlock} :
          written[b] # <<>> => SpacePadded(blocks[b], written[b][1])

\* The provisioning sketch printed the line for the card being registered.
Reported(line) == \E i \in 1..Len(ptx) : ptx[i] = line

\* A round of the plate prompt (a step of the provisioning loop taken at
\* the plate prompt).
PlateRound == pstate = "plate" /\ provVars' # provVars

\* C12: a round of the plate prompt accepts the input if and only if it has
\* exactly 7 characters; any other input is rejected with the serial input
\* flushed and the plate prompt entered again; no round writes to the tag,
\* and the plate kept at the balance prompt is the 7 characters accepted.
C12_PlateLength ==
    /\ [][PlateRound =>
            /\ pstate' = "balance" <=> Len(entered') = 7
            /\ pstate' = "balance" =>
                  carPlateBuff' = entered' \o Rep(SP, 9)
            /\ pstate' # "balance" =>
                  pstate' = "plate" /\ opRx' = <<>> /\ Reported("InvalidLength")'
            /\ blocks' = blocks /\ written' = written]_vars
    /\ [][(pstate = "balance" /\ pstate' = "balance") =>
            carPlateBuff' = carPlateBuff]_vars

C12_Witness ==
    /\ pstate = "plate" /\ Len(entered) = 8
    /\ Reported("InvalidLength") /\ opRx = <<>>
    /\ carPlateBuff # Unset

\* A round of the balance prompt.
BalanceRound == pstate = "balance" /\ provVars' # provVars

\* C13: a round of the balance prompt accepts the input if and only if the
\* operator entered between 1 and 16 characters before the terminator; any
\* other input, one of more than 16 characters included, is rejected, the
\* balance prompt is entered again and nothing is written to the tag.
C13_BalanceLength ==
    [][BalanceRound =>
        /\ pstate' = "idle" <=> Len(entered') \in 1..16
        /\ pstate' # "idle" =>
              /\ pstate' = "balance" /\ Reported("InvalidBalance")'
              /\ blocks' = blocks /\ written' = written]_vars

\* What writeBytesToBlock prints for one block: a failed authentication, a
\* failed write after authentication, a write that succeeded.
WriteReports ==
    { <<"AuthenticationFailed">>,
      <<"AuthenticationSuccess", "WriteFailed">>,
      <<"AuthenticationSuccess", "DataWritten">> }

WriteDone == <<"AuthenticationSuccess", "DataWritten">>

\* The bytes of the operator's input that readBytesUntil stores.
StoredInput(input) ==
    SubSeq(input, 1, IF Len(input) < 16 THEN Len(input) ELSE 16)

\* The 16 bytes padBuffer makes of the operator's input.
SpacePaddedInput(input) ==
    StoredInput(input) \o Rep(SP, 16 - Len(StoredInput(input)))

\* A round of the balance prompt that accepts the input.
BalanceAccepted == BalanceRound /\ Reported("BalanceAccepted")'

\* C14: once a balance is accepted the provisioning sketch attempts block 2
\* and then block 4, each attempt with its own authentication and its own
\* report; block 4 is written or not whatever happened to block 2, and the
\* pass ends with the tag halted and the sketch idle.
C14_IndependentWrites ==
    [][BalanceAccepted =>
        /\ \E o2 \in WriteReports, o4 \in WriteReports :
              /\ SubSeq(ptx', 4, Len(ptx') - 2) = o2 \o o4
              /\ blocks'[carPlateBlock] =
                    IF o2 = WriteDone THEN carPlateBuff
                                      ELSE blocks[carPlateBlock]
              /\ blocks'[balanceBlock] =
                    IF o4 = WriteDone
                    THEN SpacePaddedInput(entered')
                    ELSE blocks[balanceBlock]
        /\ halted' /\ pstate' = "idle"]_vars

C14_Witness ==
    /\ pstate = "idle" /\ halted /\ Reported("BalanceAccepted")
    /\ ptx[4] = "AuthenticationFailed" /\ ptx[6] = "DataWritten"
    /\ blocks[carPlateBlock] = Blank
    /\ blocks[balanceBlock] = SpacePaddedInput(ScenarioBalance)

\* C15: when the confirmation line of block 2 (of block 4) is printed, that
\* block of the tag holds the 16 bytes the line echoes.
C15_ConfirmationsTrue ==
    [][BalanceAccepted =>
        /\ Reported("PlateWritten")' =>
              blocks'[carPlateBlock] = carPlateBuff
        /\ Reported("BalanceWritten")' =>
              blocks'[balanceBlock] = SpacePaddedInput(entered')]_vars

\* A block that holds a string of decimal digits padded with spaces.
NumericBlock(buffer) ==
    \E k \in 1..16 :
        /\ IsDecimal(SubSeq(buffer, 1, k))
        /\ \A j \in (k + 1)..16 : buffer[j] = SP

\* C16: once block 4 has been written by either sketch it holds the decimal
\* digits of a non-negative integer, padded with spaces to 16 bytes.
C16_NumericBalance ==
    blocks[balanceBlock] # Blank => NumericBlock(blocks[balanceBlock])

\* The payment sketch between two sessions: idle, with the tag halted and
\* the crypto session stopped.
SessionEnded == ~awaitingUpdate /\ ~sentReady /\ halted /\ ~cryptoOn

\* C17: under LiveSpec every session that waits for the host ends with the
\* tag halted, the crypto session stopped and both flags cleared, and a
\* session that does not reach READY ends so in the pass that detected the
\* card.
C17_SessionEnds ==
    /\ awaitingUpdate ~> SessionEnded
    /\ [][(DetectsCard /\ ~awaitingUpdate') => SessionEnded']_vars

C17_Witness ==
    /\ Printed("READY") /\ Printed("WriteFailed") /\ SessionEnded
    /\ session = MaxSessions

\* A pass of the payment loop that prints READY.
SendsReady == DetectsCard /\ Printed("READY")'

\* C18: the host line a session acts on was sent after the READY of that
\* session: the pass that prints READY consumes no host line (whatever the
\* receive buffer holds when READY is printed was sent before it), and so
\* writes nothing to the tag.
C18_FreshDecision ==
    [][SendsReady => received' = <<>> /\ wr' = <<>> /\ blocks' = blocks]_vars

\* The number of outcome lines printed in the session.
OutcomeCount == Cardinality({i \in 1..Len(tx) : tx[i] \in Outcomes})

\* C19: a session that sent READY has no outcome while it waits and exactly
\* one outcome (DONE, denial, invalid balance, timeout) once it has ended,
\* with at most one call of writeBlockData and one host line consumed; a
\* pass that starts idle and detects no card consumes nothing, prints
\* nothing and writes nothing.
C19_OneOutcome ==
    /\ [](Printed("READY") =>
            /\ OutcomeCount = (IF awaitingUpdate THEN 0 ELSE 1)
            /\ Len(wr) <= 1 /\ Len(received) <= 1
            /\ wr # <<>> => Printed("DONE"))
    /\ [](received # <<>> => Printed("READY"))
    /\ [][(~awaitingUpdate /\ ~DetectsCard) =>
            /\ received' = received
            /\ Len(rx') >= Len(rx) /\ SubSeq(rx', 1, Len(rx)) = rx
            /\ wr' = wr /\ tx' = tx /\ blocks' = blocks]_vars

C19_Witness ==
    /\ Printed("READY") /\ Printed("InvalidNewBalance")
    /\ ~awaitingUpdate /\ rx # <<>> /\ Len(received) = 1

\* C20: the payment loop consumes a decision only when the receive buffer
\* holds a complete line; bytes not yet followed by a newline are left in
\* the buffer, cause no write, and the session still ends by the timeout.
C20_CompleteLinesOnly ==
    [][~HasNewline(rx) =>
        /\ ~ConsumesLine
        /\ blocks' = blocks
        /\ tx' # tx =>
              \A i \in 1..Len(tx') :
                  tx'[i] \in Outcomes => tx'[i] = "Timeout"]_vars

=============================================================================
